---- MODULE Spec2Model ----
(***************************************************************************)
(* TelSuit: the enhancement pipeline of telsuit_enhancer.py (one session:  *)
(* handle_message, process_queue, process_single_message) together with    *)
(* the enhancer hook of telsuit_cleaner.py (run_duplicate_check_for_event, *)
(* _extract_sku, _search_by_sku, _delete_messages).                        *)
(*                                                                         *)
(* A text is a sequence of tokens.  A token is one character, except the   *)
(* two words of the hard-coded product marker, which are kept as the       *)
(* indivisible tokens SHENASE and MAHSUL (UTF-16 length 5 each).           *)
(* The Telegram client is the environment: every awaited call either       *)
(* returns or raises, and the channel content is the variable posts.       *)
(***************************************************************************)
EXTENDS Integers, Sequences, FiniteSets, TLC

\* ------------------------------------------------------------------ bounds
MaxEvents == 2      \* events delivered by the platform in one run
MaxFailures == 1    \* platform calls that raise in one run
MaxWorkers == 2     \* invocations of process_queue in one run

\* the events for its own posts a session is followed through
MaxEchoes == MaxEvents + 2

\* --------------------------------------------------------------- constants
BatchSize == 50
HookScanLimit == 300

\* -------------------------------------------------------------- characters
SHENASE == "SHENASE"
MAHSUL == "MAHSUL"
Space == " "
Colon == ":"
FullwidthColon == "fw:"
ArabicDigit == "ar1"

AsciiDigits == {"1", "2"}
UnicodeDigits == AsciiDigits \cup {ArabicDigit}
AsciiLetters == {"k", "K", "x"}
SkuChars == AsciiLetters \cup AsciiDigits \cup {"_", "-"}
Whitespace == {Space}
Colons == {Colon, FullwidthColon}

Lower(c) == IF c = "K" THEN "k" ELSE IF c = "Y" THEN "y" ELSE c

LowerText(t) == [i \in 1..Len(t) |-> Lower(t[i])]

\* a count of characters instead of UTF-16 code units
Utf16UnitsNarrow(c) == 1

\* number of UTF-16 code units of a token: len(s.encode("utf-16-le")) // 2
Utf16Units(c) ==
  CASE c = "E" -> 2
    [] c \in {SHENASE, MAHSUL} -> 5
    [] OTHER -> 1

RECURSIVE Utf16Len(_)
Utf16Len(t) == IF t = <<>> THEN 0 ELSE Utf16Units(Head(t)) + Utf16Len(Tail(t))

\* needle in hay
Contains(hay, needle) ==
  \E i \in 1..(Len(hay) - Len(needle) + 1) :
     SubSeq(hay, i, i + Len(needle) - 1) = needle

\* the first index >= i whose token is not in class (Len(t)+1 when none)
RECURSIVE RunEnd(_, _, _)
RunEnd(t, i, class) ==
  IF i <= Len(t) /\ t[i] \in class THEN RunEnd(t, i + 1, class) ELSE i

\* str.strip()
RECURSIVE StripLeft(_)
StripLeft(t) ==
  IF t # <<>> /\ Head(t) \in Whitespace THEN StripLeft(Tail(t)) ELSE t

RECURSIVE StripRight(_)
StripRight(t) ==
  IF t # <<>> /\ t[Len(t)] \in Whitespace
    THEN StripRight(SubSeq(t, 1, Len(t) - 1)) ELSE t

Strip(t) == StripRight(StripLeft(t))

Max(S) == CHOOSE m \in S : \A x \in S : x <= m

\* ------------------------------------------------------------ configuration
\* config["emoji_map"]: literal emoji -> document id, in insertion order
EmojiMap == << [emoji |-> <<"e">>, doc_id |-> 11],
               [emoji |-> <<"E">>, doc_id |-> 12] >>

\* config["cleaner"]["keywords"], in list order
Keywords == << <<"k">>, <<SHENASE, Space, MAHSUL>> >>

ProductMarker == <<SHENASE, Space, MAHSUL>>

\* the texts the platform delivers in this model
Texts == { <<>>,
           <<"e", "x">>,
           <<"e", "K", Colon, "1">>,
           <<"k", Colon, Space, "1">>,
           <<SHENASE, Space, MAHSUL, Colon, "1", "E">> }

\* ------------------------------------------------------------ _extract_sku
\* re.search(rf"{kw}\s*[:fw:]\s*(<class>+)", text, IGNORECASE) anchored at i:
\* the captured group, or <<>> when the pattern does not match at i
SkuMatchAt(text, kw, i, class) ==
  LET n == Len(kw)
      a == RunEnd(text, i + n, Whitespace)
      b == RunEnd(text, a + 1, Whitespace)
      c == RunEnd(text, b, class)
  IN IF /\ i + n - 1 <= Len(text)
        /\ LowerText(SubSeq(text, i, i + n - 1)) = LowerText(kw)
        /\ a <= Len(text) /\ text[a] \in Colons
        /\ c > b
       THEN SubSeq(text, b, c - 1)
       ELSE <<>>

\* a search that returns the rightmost match of the pattern
SkuSearchLast(text, kw, class) ==
  LET hits == {i \in 1..Len(text) : SkuMatchAt(text, kw, i, class) # <<>>}
  IN IF hits = {} THEN <<>>
     ELSE SkuMatchAt(text, kw, CHOOSE i \in hits : \A j \in hits : i >= j, class)

\* the leftmost match of the pattern, <<>> for no match
SkuSearch(text, kw, class) ==
  LET hits == {i \in 1..Len(text) : SkuMatchAt(text, kw, i, class) # <<>>}
  IN IF hits = {} THEN <<>>
     ELSE SkuMatchAt(text, kw, CHOOSE i \in hits : \A j \in hits : i <= j, class)

\* _extract_sku(text, keyword); None is <<>>
ExtractSku(text, kw) ==
  LET m == SkuSearch(text, kw, SkuChars)
  IN IF m # <<>> THEN m ELSE SkuSearch(text, kw, UnicodeDigits)

\* ------------------------------------------------------ Entity Compositor
\* re.finditer(re.escape(emoji), parsed_text): the start indexes of the
\* non-overlapping occurrences, left to right, scanning from i
RECURSIVE FindIter(_, _, _)
FindIter(text, key, i) ==
  IF i + Len(key) - 1 > Len(text) THEN <<>>
  ELSE IF SubSeq(text, i, i + Len(key) - 1) = key
         THEN <<i>> \o FindIter(text, key, i + Len(key))
         ELSE FindIter(text, key, i + 1)

\* the matches list before sorting: for each emoji of the map, in map order
\* from its k-th entry on, one (start, emoji, doc_id) per occurrence
RECURSIVE MatchesIn(_, _, _)
MatchesIn(emoji_map, text, k) ==
  IF k > Len(emoji_map) THEN <<>>
  ELSE LET starts == FindIter(text, emoji_map[k].emoji, 1)
       IN [j \in 1..Len(starts) |->
             [start |-> starts[j], emoji |-> emoji_map[k].emoji,
              doc_id |-> emoji_map[k].doc_id]]
          \o MatchesIn(emoji_map, text, k + 1)

MatchesFrom(text, k) == MatchesIn(EmojiMap, text, k)

Matches(text) == MatchesFrom(text, 1)

\* list.sort(key=...): a stable sort of the pairs [k, v] by k; InsertPair
\* puts x after the pairs of equal key
RECURSIVE InsertPair(_, _)
InsertPair(sorted, x) ==
  IF sorted = <<>> THEN <<x>>
  ELSE IF x.k < Head(sorted).k
         THEN <<x>> \o sorted
         ELSE <<Head(sorted)>> \o InsertPair(Tail(sorted), x)

RECURSIVE SortPairs(_)
SortPairs(s) ==
  IF s = <<>> THEN <<>>
  ELSE InsertPair(SortPairs(SubSeq(s, 1, Len(s) - 1)), s[Len(s)])

\* matches.sort(key=lambda x: x[0])
SortMatches(ms) ==
  LET r == SortPairs([j \in 1..Len(ms) |-> [k |-> ms[j].start, v |-> ms[j]]])
  IN [j \in 1..Len(r) |-> r[j].v]

\* final_entities.sort(key=lambda e: e.offset)
SortEntities(es) ==
  LET r == SortPairs([j \in 1..Len(es) |-> [k |-> es[j].offset, v |-> es[j]]])
  IN [j \in 1..Len(r) |-> r[j].v]

\* MessageEntityCustomEmoji(offset, length, document_id) for one match
CustomEmoji(text, m) ==
  [kind |-> "custom_emoji",
   offset |-> Utf16Len(SubSeq(text, 1, m.start - 1)),
   length |-> Utf16Len(m.emoji),
   doc_id |-> m.doc_id]

\* new_entities for the emoji map
NewEntitiesIn(emoji_map, text) ==
  LET ms == SortMatches(MatchesIn(emoji_map, text, 1))
  IN [j \in 1..Len(ms) |-> CustomEmoji(text, ms[j])]

NewEntities(text) == NewEntitiesIn(EmojiMap, text)

\* new_entities for each text of the model, computed once per text
NewEntitiesOf == [t \in Texts |-> NewEntities(t)]

\* client._parse_message_text(text, "md") on message.text: the markdown
\* round trip keeps the text of this model's tokens and every entity but the
\* custom emojis, which the markdown unparser does not emit
ParsedText(msg) == msg.text

\* a parse that hands back every entity of the message
ParsedEntitiesKeepAll(msg) == msg.entities

ParsedEntities(msg) ==
  SelectSeq(msg.entities, LAMBDA e : e.kind # "custom_emoji")

EmojiUpdateNeeded(msg) == Matches(ParsedText(msg)) # <<>>

\* entities_to_use for the emoji map
FinalEntities(emoji_map, msg) ==
  IF MatchesIn(emoji_map, ParsedText(msg), 1) # <<>>
    THEN SortEntities(ParsedEntities(msg)
                      \o NewEntitiesIn(emoji_map, ParsedText(msg)))
    ELSE msg.entities

\* entities_to_use
EntitiesToUse(msg) ==
  IF EmojiUpdateNeeded(msg)
    THEN SortEntities(ParsedEntities(msg) \o NewEntitiesOf[ParsedText(msg)])
    ELSE msg.entities

\* re.search(r"SHENASE\s*MAHSUL[:fw:]?\s*(\d+)", parsed_text) anchored at i
ProductIdAt(text, i) ==
  LET a == RunEnd(text, i + 1, Whitespace)
      b == IF a + 1 <= Len(text) /\ text[a + 1] \in Colons THEN a + 2 ELSE a + 1
      c == RunEnd(text, b, Whitespace)
      d == RunEnd(text, c, UnicodeDigits)
  IN IF /\ i <= Len(text) /\ text[i] = SHENASE
        /\ a <= Len(text) /\ text[a] = MAHSUL
        /\ d > c
       THEN SubSeq(text, c, d - 1)
       ELSE <<>>

\* button_update_needed
ButtonUpdateNeeded(msg) ==
  /\ Contains(ParsedText(msg), ProductMarker)
  /\ ~msg.reply_markup
  /\ \E i \in 1..Len(ParsedText(msg)) : ProductIdAt(ParsedText(msg), i) # <<>>

\* ------------------------------------------------------------ cleaner hook
\* run_duplicate_check_for_event: the first keyword, in list order, that is
\* in the text and after which _extract_sku finds a SKU; kw = <<>> for none
\* a keyword loop that gives up at the first keyword without a SKU
KeywordLoopFirstOnly(kws, text, k) ==
  IF k > Len(kws) THEN [kw |-> <<>>, sku |-> <<>>, tried |-> <<>>]
  ELSE IF /\ Contains(LowerText(text), LowerText(kws[k]))
          /\ ExtractSku(text, kws[k]) # <<>>
         THEN [kw |-> kws[k], sku |-> ExtractSku(text, kws[k]),
               tried |-> <<k>>]
         ELSE [kw |-> <<>>, sku |-> <<>>, tried |-> <<k>>]

\* for kw in keywords, from the k-th keyword on: chosen_kw and sku at the
\* end of the loop (<<>> for None) and the keywords the loop looked at
RECURSIVE KeywordLoop(_, _, _)
KeywordLoop(kws, text, k) ==
  IF k > Len(kws) THEN [kw |-> <<>>, sku |-> <<>>, tried |-> <<>>]
  ELSE IF /\ Contains(LowerText(text), LowerText(kws[k]))
          /\ ExtractSku(text, kws[k]) # <<>>
         THEN [kw |-> kws[k], sku |-> ExtractSku(text, kws[k]),
               tried |-> <<k>>]
         ELSE [KeywordLoop(kws, text, k + 1) EXCEPT !.tried = <<k>> \o @]

ChooseKeyword(text, k) ==
  [kw |-> KeywordLoop(Keywords, text, k).kw,
   sku |-> KeywordLoop(Keywords, text, k).sku]

\* chosen_kw and sku for each raw_text of the model, stripped: the keyword
\* loop computed once per text
HookTargets == [t \in Texts |-> ChooseKeyword(Strip(t), 1)]

\* chosen_kw and sku for event.message
HookTarget(msg) == HookTargets[msg.text]

RECURSIVE Descending(_)
Descending(S) ==
  IF S = {} THEN <<>> ELSE <<Max(S)>> \o Descending(S \ {Max(S)})

\* client.iter_messages(chat_id, search=query, limit=limit): the platform's
\* full-text search, newest first, a coarse filter on the query's tokens
IterMessages(ps, query, limit) ==
  LET hits == Descending({i \in DOMAIN ps : Contains(ps[i].text, query)})
  IN SubSeq(hits, 1, IF Len(hits) < limit THEN Len(hits) ELSE limit)

\* the id a search excludes: keep_latest_id = msg.id of the event's message
KeepLatestId(ev) == ev.message.id

\* _search_by_sku
SearchBySku(ps, keyword, sku, keep_latest_id, scan_limit) ==
  SelectSeq(IterMessages(ps, sku, scan_limit),
            LAMBDA i : /\ Contains(LowerText(ps[i].text), LowerText(keyword))
                       /\ Contains(ps[i].text, sku)
                       /\ i # keep_latest_id)

\* _delete_messages: the batches it passes to client.delete_messages
RECURSIVE Batches(_)
Batches(ids) ==
  IF ids = <<>> THEN <<>>
  ELSE IF Len(ids) <= BatchSize THEN <<ids>>
  ELSE <<SubSeq(ids, 1, BatchSize)>>
         \o Batches(SubSeq(ids, BatchSize + 1, Len(ids)))

Range(s) == {s[i] : i \in 1..Len(s)}

\* ------------------------------------------------------------------- state
VARIABLES
  posts,          \* the chat on the platform: id -> post, for the existing posts
  next_id,        \* the id the platform gives the next post
  is_channel,     \* event.is_channel of the monitored chat
  message_queue,  \* the asyncio.Queue of events
  next_seq,       \* number of events enqueued so far, plus one
  enqueued,       \* the events handle_message has put, in order
  processing,     \* the nonlocal flag of process_queue
  workers,        \* invocation of process_queue -> its position and locals
  calls,          \* the delete, send, edit and search calls issued, in order
  hooked,         \* tasks for which run_duplicate_check_for_event was invoked
  errors,         \* the logger.error records
  failures,       \* calls that raised so far
  taken,          \* the enqueue numbers message_queue.get() returned, in order
  echoes,         \* the enqueue numbers of the events for the session's own posts
  chat,           \* the cleaner's channel: id -> text of the existing posts
  menu,           \* the coroutine of _menu_remove_duplicates
  dm,             \* the coroutine of _delete_messages
  trace,          \* what the cleaner printed, asked, requested and slept
  monitor,        \* the on_new_message handlers of the live monitor, in order
  fn              \* one call of a function of the cleaner and its result

\* the state of the enhancer session
pipeline == <<posts, next_id, is_channel, message_queue, next_seq, enqueued,
              processing, workers, calls, hooked, errors, failures, taken,
              echoes>>

\* the state of the cleaner run from its menu
cleaner == <<chat, menu, dm, trace, monitor>>

vars == <<pipeline, cleaner, fn>>

Workers == 1..MaxWorkers

NoMessage ==
  [id |-> 0, text |-> <<>>, entities |-> <<>>, reply_markup |-> FALSE,
   edit_date |-> FALSE]

NoEvent == [seq |-> 0, message |-> NoMessage, is_channel |-> FALSE]

\* a coroutine of process_queue that was not called yet
NotCalled == [pc |-> "call", ev |-> NoEvent, current_msg |-> 0, ids |-> <<>>]

\* a coroutine suspended in message_queue.get()
Waiting == [pc |-> "get", ev |-> NoEvent, current_msg |-> 0, ids |-> <<>>]

PipelineInit ==
  /\ posts = <<>>
  /\ next_id = 1
  /\ is_channel \in BOOLEAN
  /\ message_queue = <<>>
  /\ next_seq = 1
  /\ enqueued = <<>>
  /\ processing = FALSE
  /\ workers = [w \in Workers |-> NotCalled]
  /\ calls = <<>>
  /\ hooked = {}
  /\ errors = {}
  /\ failures = 0
  /\ echoes = {}
  /\ taken = <<>>

\* the cleaner menu is not open
CleanerOff ==
  /\ chat = <<>>
  /\ monitor = <<>>
  /\ menu = [pc |-> "off"]
  /\ dm = [pc |-> "off"]
  /\ trace = <<>>

\* the enhancer session right after start_enhancer registered its handlers
Init == PipelineInit /\ CleanerOff /\ fn = [pc |-> "off"]

\* --------------------------------------------------------- event handlers
\* handle_message: await message_queue.put(event)
handle_message(q, ev) == Append(q, ev)

\* the platform publishes a new post in the chat: events.NewMessage
NewMessage ==
  /\ next_seq - Cardinality(echoes) <= MaxEvents
  /\ \E t \in Texts :
       /\ posts' = posts @@ (next_id :>
            [text |-> t, entities |-> <<>>, reply_markup |-> FALSE,
             edit_date |-> FALSE])
       /\ LET ev == [seq |-> next_seq,
                     message |-> [id |-> next_id, text |-> t,
                                  entities |-> <<>>, reply_markup |-> FALSE,
                                  edit_date |-> FALSE],
                     is_channel |-> is_channel]
          IN /\ message_queue' = handle_message(message_queue, ev)
             /\ enqueued' = Append(enqueued, ev)
  /\ next_id' = next_id + 1
  /\ next_seq' = next_seq + 1
  /\ UNCHANGED <<cleaner, fn, echoes, taken, is_channel, processing, workers, calls, hooked, errors,
                 failures>>

\* somebody edits a post of the chat: events.MessageEdited
MessageEdited ==
  /\ next_seq - Cardinality(echoes) <= MaxEvents
  /\ \E i \in DOMAIN posts, t \in Texts :
       /\ posts' = [posts EXCEPT ![i] =
            [text |-> t, entities |-> <<>>,
             reply_markup |-> posts[i].reply_markup, edit_date |-> TRUE]]
       /\ LET ev == [seq |-> next_seq,
                     message |-> [id |-> i, text |-> t, entities |-> <<>>,
                                  reply_markup |-> posts[i].reply_markup,
                                  edit_date |-> TRUE],
                     is_channel |-> is_channel]
          IN /\ message_queue' = handle_message(message_queue, ev)
             /\ enqueued' = Append(enqueued, ev)
  /\ next_seq' = next_seq + 1
  /\ UNCHANGED <<cleaner, fn, echoes, taken, next_id, is_channel, processing, workers, calls, hooked,
                 errors, failures>>

\* ------------------------------------------------------------ queue worker
\* process_queue without the test of the processing flag
process_queue_unguarded(w) ==
  /\ workers[w].pc = "call"
  /\ \A v \in 1..(w - 1) : workers[v].pc # "call"
  /\ processing' = TRUE
  /\ workers' = [workers EXCEPT ![w] = Waiting]
  /\ UNCHANGED <<cleaner, fn, echoes, taken, posts, next_id, is_channel, message_queue, next_seq, enqueued,
                 calls, hooked, errors, failures>>

\* process_queue up to its first await: the guard on the processing flag
\* (the invocations are numbered in the order in which they are made)
process_queue(w) ==
  /\ workers[w].pc = "call"
  /\ \A v \in 1..(w - 1) : workers[v].pc # "call"
  /\ IF processing
       THEN /\ workers' = [workers EXCEPT ![w].pc = "returned"]
            /\ UNCHANGED processing
       ELSE /\ processing' = TRUE
            /\ workers' = [workers EXCEPT ![w] = Waiting]
  /\ UNCHANGED <<cleaner, fn, echoes, taken, posts, next_id, is_channel, message_queue, next_seq, enqueued, calls,
                 hooked, errors, failures>>

\* a queue that hands out its newest item
QueueGetLast(q) == [item |-> q[Len(q)], rest |-> SubSeq(q, 1, Len(q) - 1)]

\* a queue whose get() loses the item behind the one it returns
QueueGetDropsNext(q) ==
  [item |-> Head(q), rest |-> IF Len(q) > 1 THEN Tail(Tail(q)) ELSE Tail(q)]

\* the item message_queue.get() returns, and the queue it leaves
QueueGet(q) == [item |-> Head(q), rest |-> Tail(q)]

\* event = await message_queue.get(), then process_single_message up to its
\* first await: a message without text returns at once
Dequeue(w) ==
  /\ workers[w].pc = "get"
  /\ message_queue # <<>>
  /\ LET g == QueueGet(message_queue)
     IN /\ message_queue' = g.rest
        /\ taken' = Append(taken, g.item.seq)
        /\ workers' = [workers EXCEPT ![w] =
             [pc |-> IF g.item.message.text = <<>> THEN "sleep" ELSE "parse",
              ev |-> g.item, current_msg |-> g.item.message.id,
              ids |-> <<>>]]
  /\ UNCHANGED <<cleaner, fn, echoes, posts, next_id, is_channel, next_seq, enqueued, processing, calls,
                 hooked, errors, failures>>

\* the two tests that guard the cleaner in the finally block
EditSkipsCleaner(ev) == ~ButtonUpdateNeeded(ev.message) /\ ev.message.edit_date

\* the is_channel test left out
NonChannelTestDropped(ev) == FALSE

NonChannelSkipsCleaner(ev) == ~ev.is_channel

\* the cleaner called at the end of the try block instead of in finally
FinallyOnSuccessOnly(ev, failed) ==
  IF failed \/ EditSkipsCleaner(ev) \/ NonChannelSkipsCleaner(ev)
    THEN [hook |-> FALSE, pc |-> "sleep"]
  ELSE IF Keywords = <<>> \/ Strip(ev.message.text) = <<>>
            \/ HookTarget(ev.message).kw = <<>>
    THEN [hook |-> TRUE, pc |-> "sleep"]
    ELSE [hook |-> TRUE, pc |-> "hook_search"]

\* the finally block of process_single_message and run_duplicate_check_for_event
\* up to its first await: is the hook invoked, and where the worker stops next
Finally(ev, failed) ==
  IF EditSkipsCleaner(ev) \/ NonChannelSkipsCleaner(ev)
    THEN [hook |-> FALSE, pc |-> "sleep"]
  ELSE IF Keywords = <<>> \/ Strip(ev.message.text) = <<>>
            \/ HookTarget(ev.message).kw = <<>>
    THEN [hook |-> TRUE, pc |-> "sleep"]
    ELSE [hook |-> TRUE, pc |-> "hook_search"]

\* delete and send used for every update, button or not
ComposeResendAlways(ev) ==
  IF ~EmojiUpdateNeeded(ev.message) /\ ~ButtonUpdateNeeded(ev.message)
    THEN [hook |-> FALSE, pc |-> "sleep"]
    ELSE [hook |-> FALSE, pc |-> "apply_delete"]

\* the "no action needed" return placed inside the try block, so that the
\* finally block runs for it
ComposeReturnInsideTry(ev) ==
  IF ~EmojiUpdateNeeded(ev.message) /\ ~ButtonUpdateNeeded(ev.message)
    THEN Finally(ev, FALSE)
  ELSE IF ButtonUpdateNeeded(ev.message)
    THEN [hook |-> FALSE, pc |-> "apply_delete"]
    ELSE [hook |-> FALSE, pc |-> "apply_edit"]

\* after the parse: the update logic chosen for the message
Compose(ev) ==
  IF ~EmojiUpdateNeeded(ev.message) /\ ~ButtonUpdateNeeded(ev.message)
    THEN [hook |-> FALSE, pc |-> "sleep"]
  ELSE IF ButtonUpdateNeeded(ev.message)
    THEN [hook |-> FALSE, pc |-> "apply_delete"]
    ELSE [hook |-> FALSE, pc |-> "apply_edit"]

Goto(w, to) ==
  /\ workers' = [workers EXCEPT ![w].pc = to.pc]
  /\ hooked' = IF to.hook THEN hooked \cup {workers[w].ev.seq} ELSE hooked

Log(w, what) == [seq |-> workers[w].ev.seq, log |-> what]

Call(w, op, by, ids, result) ==
  [seq |-> workers[w].ev.seq, op |-> op, by |-> by, ids |-> ids,
   result |-> result]

\* client._parse_message_text returns
Parse(w) ==
  /\ workers[w].pc = "parse"
  /\ Goto(w, Compose(workers[w].ev))
  /\ UNCHANGED <<cleaner, fn, echoes, taken, posts, next_id, is_channel, message_queue, next_seq, enqueued,
                 processing, calls, errors, failures>>

\* process_queue without its except clause: the error ends the coroutine
QueueErrorEscapes(w) == "stopped"

\* the except clause of process_queue: the error is logged, the loop goes on
QueueError(w) == "sleep"

\* client._parse_message_text raises: the error leaves process_single_message
ParseRaises(w) ==
  /\ workers[w].pc = "parse"
  /\ failures < MaxFailures
  /\ failures' = failures + 1
  /\ errors' = errors \cup {Log(w, "Queue error")}
  /\ workers' = [workers EXCEPT ![w].pc = QueueError(w)]
  /\ UNCHANGED <<cleaner, fn, echoes, taken, posts, next_id, is_channel, message_queue, next_seq, enqueued,
                 processing, calls, hooked>>

Without(ps, S) == [i \in DOMAIN ps \ S |-> ps[i]]

\* await client.delete_messages(original_msg.peer_id, [original_msg.id])
ApplyDelete(w) ==
  /\ workers[w].pc = "apply_delete"
  /\ LET id == workers[w].ev.message.id
     IN /\ posts' = Without(posts, {id})
        /\ calls' = Append(calls, Call(w, "delete", "apply", {id}, "ok"))
  /\ workers' = [workers EXCEPT ![w].pc = "apply_send"]
  /\ UNCHANGED <<cleaner, fn, echoes, taken, next_id, is_channel, message_queue, next_seq, enqueued, processing,
                 hooked, errors, failures>>

ApplyDeleteRaises(w) ==
  /\ workers[w].pc = "apply_delete"
  /\ failures < MaxFailures
  /\ failures' = failures + 1
  /\ calls' = Append(calls,
       Call(w, "delete", "apply", {workers[w].ev.message.id}, "raised"))
  /\ errors' = errors \cup {Log(w, "Failed processing message")}
  /\ Goto(w, Finally(workers[w].ev, TRUE))
  /\ UNCHANGED <<cleaner, fn, echoes, taken, posts, next_id, is_channel, message_queue, next_seq, enqueued,
                 processing>>

\* the event the platform delivers for a post the session itself sent or
\* edited: handle_message puts it like any other
OwnEvent(id, post) ==
  [seq |-> next_seq,
   message |-> [id |-> id, text |-> post.text, entities |-> post.entities,
                reply_markup |-> post.reply_markup,
                edit_date |-> post.edit_date],
   is_channel |-> is_channel]

\* handle_message for the event of an own post, when the platform delivers
\* one
Deliver(delivered, id, post) ==
  IF delivered
    THEN /\ message_queue' = handle_message(message_queue, OwnEvent(id, post))
         /\ enqueued' = Append(enqueued, OwnEvent(id, post))
         /\ next_seq' = next_seq + 1
         /\ echoes' = echoes \cup {next_seq}
    ELSE UNCHANGED <<message_queue, next_seq, enqueued, echoes>>

\* new_msg = await client.send_message(...); current_msg = new_msg
ApplySendWith(w, delivered) ==
  /\ workers[w].pc = "apply_send"
  /\ delivered => Cardinality(echoes) < MaxEchoes
  /\ LET msg == workers[w].ev.message
         to == Finally(workers[w].ev, FALSE)
         post == [text |-> ParsedText(msg), entities |-> EntitiesToUse(msg),
                  reply_markup |-> TRUE, edit_date |-> FALSE]
     IN /\ posts' = posts @@ (next_id :> post)
        /\ workers' = [workers EXCEPT ![w].pc = to.pc,
                                      ![w].current_msg = next_id]
        /\ hooked' = IF to.hook THEN hooked \cup {workers[w].ev.seq} ELSE hooked
        /\ Deliver(delivered, next_id, post)
  /\ calls' = Append(calls, Call(w, "send", "apply", {next_id}, "ok"))
  /\ next_id' = next_id + 1
  /\ UNCHANGED <<cleaner, fn, taken, is_channel, processing, errors, failures>>

\* the send returns and the platform delivers no event for the new post
ApplySend(w) == ApplySendWith(w, FALSE)

\* the send returns and the platform delivers events.NewMessage for the post
ApplySendDelivered(w) == ApplySendWith(w, TRUE)

ApplySendRaises(w) ==
  /\ workers[w].pc = "apply_send"
  /\ failures < MaxFailures
  /\ failures' = failures + 1
  /\ calls' = Append(calls, Call(w, "send", "apply", {}, "raised"))
  /\ errors' = errors \cup {Log(w, "Failed processing message")}
  /\ Goto(w, Finally(workers[w].ev, TRUE))
  /\ UNCHANGED <<cleaner, fn, echoes, taken, posts, next_id, is_channel, message_queue, next_seq, enqueued,
                 processing>>

\* the platform's answer to event.edit(text, formatting_entities)
EditResult(ps, msg) ==
  IF msg.id \notin DOMAIN ps THEN "MessageIdInvalid"
  ELSE IF /\ ps[msg.id].text = ParsedText(msg)
          /\ ps[msg.id].entities = EntitiesToUse(msg)
    THEN "MessageNotModified"
    ELSE "ok"

\* how the except clause of process_single_message treats an edit error
EditErrorLogged(result) == TRUE

\* await event.edit(**edit_kwargs) returns
ApplyEditWith(w, delivered) ==
  /\ workers[w].pc = "apply_edit"
  /\ delivered => Cardinality(echoes) < MaxEchoes
  /\ LET msg == workers[w].ev.message
         post == [text |-> ParsedText(msg), entities |-> EntitiesToUse(msg),
                  reply_markup |-> posts[msg.id].reply_markup,
                  edit_date |-> TRUE]
     IN /\ EditResult(posts, msg) = "ok"
        /\ posts' = [posts EXCEPT ![msg.id] = post]
        /\ calls' = Append(calls, Call(w, "edit", "apply", {msg.id}, "ok"))
        /\ Deliver(delivered, msg.id, post)
  /\ Goto(w, Finally(workers[w].ev, FALSE))
  /\ UNCHANGED <<cleaner, fn, taken, next_id, is_channel, processing, errors,
                 failures>>

\* the edit returns and the platform delivers no event for the edited post
ApplyEdit(w) == ApplyEditWith(w, FALSE)

\* the edit returns and the platform delivers events.MessageEdited for the post
ApplyEditDelivered(w) == ApplyEditWith(w, TRUE)

\* the platform rejects the edit: the post is gone or the content is unchanged
ApplyEditRejected(w) ==
  /\ workers[w].pc = "apply_edit"
  /\ LET msg == workers[w].ev.message
         r == EditResult(posts, msg)
     IN /\ r # "ok"
        /\ calls' = Append(calls, Call(w, "edit", "apply", {msg.id}, r))
        /\ errors' = IF EditErrorLogged(r)
                       THEN errors \cup {Log(w, "Failed processing message")}
                       ELSE errors
  /\ Goto(w, Finally(workers[w].ev, TRUE))
  /\ UNCHANGED <<cleaner, fn, echoes, taken, posts, next_id, is_channel, message_queue, next_seq, enqueued,
                 processing, failures>>

\* the edit fails for another reason (flood wait, rights, network)
ApplyEditRaises(w) ==
  /\ workers[w].pc = "apply_edit"
  /\ EditResult(posts, workers[w].ev.message) = "ok"
  /\ failures < MaxFailures
  /\ failures' = failures + 1
  /\ calls' = Append(calls,
       Call(w, "edit", "apply", {workers[w].ev.message.id}, "raised"))
  /\ errors' = errors \cup {Log(w, "Failed processing message")}
  /\ Goto(w, Finally(workers[w].ev, TRUE))
  /\ UNCHANGED <<cleaner, fn, echoes, taken, posts, next_id, is_channel, message_queue, next_seq, enqueued,
                 processing>>

\* ids = await _search_by_sku(...); if not ids: return
HookSearch(w) ==
  /\ workers[w].pc = "hook_search"
  /\ LET ev == workers[w].ev
         t == HookTarget(ev.message)
         ids == SearchBySku(posts, t.kw, t.sku, KeepLatestId(ev), HookScanLimit)
     IN /\ workers' = [workers EXCEPT
             ![w].pc = IF ids = <<>> THEN "sleep" ELSE "hook_delete",
             ![w].ids = ids]
        /\ calls' = Append(calls, Call(w, "search", "hook", {}, "ok"))
  /\ UNCHANGED <<cleaner, fn, echoes, taken, posts, next_id, is_channel, message_queue, next_seq, enqueued,
                 processing, hooked, errors, failures>>

HookSearchRaises(w) ==
  /\ workers[w].pc = "hook_search"
  /\ failures < MaxFailures
  /\ failures' = failures + 1
  /\ calls' = Append(calls, Call(w, "search", "hook", {}, "raised"))
  /\ errors' = errors \cup {Log(w, "Cleaner(auto) failed")}
  /\ workers' = [workers EXCEPT ![w].pc = "sleep"]
  /\ UNCHANGED <<cleaner, fn, echoes, taken, posts, next_id, is_channel, message_queue, next_seq, enqueued,
                 processing, hooked>>

\* the calls of _delete_messages for batches 1..n, the last one failing or not
BatchCalls(w, bs, n, last_ok) ==
  [j \in 1..n |->
     Call(w, "delete", "hook", Range(bs[j]),
          IF j < n \/ last_ok THEN "ok" ELSE "raised")]

RECURSIVE UnionOf(_, _)
UnionOf(bs, n) == IF n = 0 THEN {} ELSE Range(bs[n]) \cup UnionOf(bs, n - 1)

\* deleted = await _delete_messages(client, event.chat_id, ids): every batch
\* is deleted
HookDelete(w) ==
  /\ workers[w].pc = "hook_delete"
  /\ LET bs == Batches(workers[w].ids)
     IN /\ posts' = Without(posts, UnionOf(bs, Len(bs)))
        /\ calls' = calls \o BatchCalls(w, bs, Len(bs), TRUE)
  /\ workers' = [workers EXCEPT ![w].pc = "sleep"]
  /\ UNCHANGED <<cleaner, fn, echoes, taken, next_id, is_channel, message_queue, next_seq, enqueued, processing,
                 hooked, errors, failures>>

\* client.delete_messages raises on batch f: the batches before it are
\* deleted, the error leaves _delete_messages and is logged by the hook
HookDeleteRaises(w) ==
  /\ workers[w].pc = "hook_delete"
  /\ failures < MaxFailures
  /\ failures' = failures + 1
  /\ LET bs == Batches(workers[w].ids)
     IN \E f \in 1..Len(bs) :
          /\ posts' = Without(posts, UnionOf(bs, f - 1))
          /\ calls' = calls \o BatchCalls(w, bs, f, FALSE)
  /\ errors' = errors \cup {Log(w, "Cleaner(auto) failed")}
  /\ workers' = [workers EXCEPT ![w].pc = "sleep"]
  /\ UNCHANGED <<cleaner, fn, echoes, taken, next_id, is_channel, message_queue, next_seq, enqueued, processing,
                 hooked>>

\* message_queue.task_done(); await asyncio.sleep(2); back to the get
Sleep(w) ==
  /\ workers[w].pc = "sleep"
  /\ workers' = [workers EXCEPT ![w] = Waiting]
  /\ UNCHANGED <<cleaner, fn, echoes, taken, posts, next_id, is_channel, message_queue, next_seq, enqueued,
                 processing, calls, hooked, errors, failures>>

Next ==
  \/ NewMessage
  \/ MessageEdited
  \/ \E w \in Workers :
       \/ process_queue(w)
       \/ Dequeue(w)
       \/ Parse(w)
       \/ ParseRaises(w)
       \/ ApplyDelete(w)
       \/ ApplyDeleteRaises(w)
       \/ ApplySend(w)
       \/ ApplySendRaises(w)
       \/ ApplyEdit(w)
       \/ ApplyEditRejected(w)
       \/ ApplyEditRaises(w)
       \/ HookSearch(w)
       \/ HookSearchRaises(w)
       \/ HookDelete(w)
       \/ HookDeleteRaises(w)
       \/ Sleep(w)

Spec == Init /\ [][Next]_vars


\* one step of the coroutine of invocation w: the event loop resumes a
\* coroutine whose awaited call has returned or raised
WorkerStep(w) ==
  \/ process_queue(w)
  \/ Dequeue(w)
  \/ Parse(w)
  \/ ParseRaises(w)
  \/ ApplyDelete(w)
  \/ ApplyDeleteRaises(w)
  \/ ApplySend(w)
  \/ ApplySendRaises(w)
  \/ ApplyEdit(w)
  \/ ApplyEditRejected(w)
  \/ ApplyEditRaises(w)
  \/ HookSearch(w)
  \/ HookSearchRaises(w)
  \/ HookDelete(w)
  \/ HookDeleteRaises(w)
  \/ Sleep(w)

\* the session when every platform call eventually returns or raises and
\* the event loop keeps scheduling the coroutines that can run
FairSpec == Spec /\ \A w \in Workers : WF_vars(WorkerStep(w))
\* ------------------------------------------------------------------ claims
\* the positions of a task between its dequeue and its completion
InFlight ==
  {"parse", "apply_delete", "apply_send", "apply_edit", "hook_search",
   "hook_delete"}

\* ------------------------------------------- the session hears its own posts
\* the platform delivers an event for every post the session sends or edits
EchoNext ==
  \/ NewMessage
  \/ MessageEdited
  \/ \E w \in Workers :
       \/ process_queue(w)
       \/ Dequeue(w)
       \/ Parse(w)
       \/ ParseRaises(w)
       \/ ApplyDelete(w)
       \/ ApplyDeleteRaises(w)
       \/ ApplySendDelivered(w)
       \/ ApplySendRaises(w)
       \/ ApplyEditDelivered(w)
       \/ ApplyEditRejected(w)
       \/ ApplyEditRaises(w)
       \/ HookSearch(w)
       \/ HookSearchRaises(w)
       \/ HookDelete(w)
       \/ HookDeleteRaises(w)
       \/ Sleep(w)

EchoSpec == Init /\ [][EchoNext]_vars

\* the positions of a coroutine that is still running its loop
Alive == InFlight \cup {"get", "sleep"}

HasCall(s) == \E i \in 1..Len(calls) : calls[i].seq = s

\* what process_single_message decides for a message with text t and
\* reply_markup m, tabulated for the texts of the model
Decision ==
  [t \in Texts |-> [m \in BOOLEAN |->
     LET msg == [id |-> 1, text |-> t, entities |-> <<>>, reply_markup |-> m,
                 edit_date |-> FALSE]
     IN [button |-> ButtonUpdateNeeded(msg),
         emoji |-> EmojiUpdateNeeded(msg),
         to |-> Compose([seq |-> 1, message |-> msg, is_channel |-> TRUE]).pc]]]

DecisionOf(ev) == Decision[ev.message.text][ev.message.reply_markup]

\* C1: tasks are processed strictly in enqueue order: the calls issued are
\* ordered by the enqueue number of their task, a task being processed was
\* enqueued after every task that issued a call and before every event that
\* still waits in the queue
C1_StrictFifo ==
  /\ \A i, j \in 1..Len(calls) : i < j => calls[i].seq <= calls[j].seq
  /\ \A k \in 1..Len(message_queue), i \in 1..Len(calls) :
       calls[i].seq < message_queue[k].seq
  /\ \A w \in Workers :
       workers[w].pc \in InFlight =>
         /\ \A i \in 1..Len(calls) : calls[i].seq <= workers[w].ev.seq
         /\ \A k \in 1..Len(message_queue) :
              workers[w].ev.seq < message_queue[k].seq

\* two tasks have both issued calls, the one enqueued first before the other
C1_Witness ==
  \E i, j \in 1..Len(calls) : i < j /\ calls[i].seq = 1 /\ calls[j].seq = 2

\* C2: at most one task is between dequeue and completion, also when
\* process_queue is invoked more than once and events keep arriving
C2_OneTaskInFlight ==
  Cardinality({w \in Workers : workers[w].pc \in InFlight}) <= 1

\* a task is in flight, a second invocation of process_queue has been made
\* and another event waits in the queue
C2_Witness ==
  /\ \E w \in Workers : workers[w].pc \in InFlight
  /\ \E v \in Workers : workers[v].pc = "returned"
  /\ message_queue # <<>>

\* C3: a task whose source post carries an edit timestamp never runs the
\* post-hook (run_duplicate_check_for_event is not invoked for it)
C3_EditedNeverHooked ==
  \A s \in hooked : ~enqueued[s].message.edit_date

\* the posts that carry keyword kw followed by the SKU sku
Group(ps, kw, sku) ==
  {i \in DOMAIN ps : /\ Contains(LowerText(ps[i].text), LowerText(kw))
                     /\ ExtractSku(ps[i].text, kw) = sku}

\* C4: in the post-hook the post with the greatest id among those carrying
\* the triggering keyword and SKU is never among the ids requested for deletion
C4_GreatestIdKept ==
  \A w \in Workers :
    workers[w].pc = "hook_delete" =>
      LET t == HookTarget(workers[w].ev.message)
          g == Group(posts, t.kw, t.sku)
      IN g # {} => Max(g) \notin Range(workers[w].ids)

C6_WorkerSurvives ==
  /\ processing => \E w \in Workers : workers[w].pc \in Alive
  /\ \A i \in 1..Len(calls) :
       LET c == calls[i]
           to == DecisionOf(enqueued[c.seq]).to
       IN c.by = "apply" =>
            /\ c.op = "edit" <=> to = "apply_edit"
            /\ c.op \in {"delete", "send"} <=> to = "apply_delete"

\* the first task failed and the second one was processed to its end
C6_Witness ==
  /\ \E e \in errors : e.seq = 1
  /\ \E w \in Workers : workers[w].pc = "sleep" /\ workers[w].ev.seq = 2
  /\ \E i \in 1..Len(calls) : calls[i].seq = 2 /\ calls[i].result = "ok"

\* C7: when the apply step fails, the post-hook is still invoked, provided
\* the source post has no edit timestamp and comes from a channel
C7_HookAfterFailedApply ==
  \A i \in 1..Len(calls) :
    LET c == calls[i]
        ev == enqueued[c.seq]
    IN (/\ c.by = "apply" /\ c.result # "ok"
        /\ ~ev.message.edit_date /\ ev.is_channel)
       => c.seq \in hooked

\* an edit failed and the hook of that task went on to its search
C7_Witness ==
  \E i, j \in 1..Len(calls) :
    /\ i < j
    /\ calls[i].op = "edit" /\ calls[i].result # "ok"
    /\ calls[j].op = "search" /\ calls[j].seq = calls[i].seq
    /\ calls[i].seq \in hooked

\* C8: an edit answered with "content unchanged" is a success: no failure is
\* logged for the task
C8_UnchangedNotLogged ==
  \A i \in 1..Len(calls) :
    (calls[i].op = "edit" /\ calls[i].result = "MessageNotModified")
      => [seq |-> calls[i].seq, log |-> "Failed processing message"]
           \notin errors

NoUpdateNeeded(ev) ==
  \/ ev.message.text = <<>>
  \/ ~DecisionOf(ev).emoji /\ ~DecisionOf(ev).button

\* C9: a task that needs neither glyphs nor a button (or has no text) goes
\* straight to its end: no edit, delete, send or search call and no hook
C9_NoUpdateNoCall ==
  \A s \in 1..Len(enqueued) :
    NoUpdateNeeded(enqueued[s]) =>
      /\ ~HasCall(s)
      /\ s \notin hooked
      /\ \A w \in Workers :
           workers[w].ev.seq = s => workers[w].pc \in {"parse", "sleep"}

\* a channel post with text, keyword and SKU but nothing to update has been
\* composed and its task is over
C9_Witness ==
  \E w \in Workers :
    /\ workers[w].pc = "sleep"
    /\ workers[w].ev.is_channel
    /\ workers[w].ev.message.text # <<>>
    /\ HookTarget(workers[w].ev.message).kw # <<>>
    /\ NoUpdateNeeded(workers[w].ev)
    /\ \A e \in errors : e.seq # workers[w].ev.seq

\* C10: a task whose event does not come from a channel never runs the
\* post-hook: no hook invocation, no search and no hook deletion for it
C10_NonChannelNeverHooked ==
  \A s \in 1..Len(enqueued) :
    ~enqueued[s].is_channel =>
      /\ s \notin hooked
      /\ \A i \in 1..Len(calls) : calls[i].seq = s => calls[i].by # "hook"

\* a new post outside a channel, with keyword and SKU, was enhanced and its
\* task is over
C10_Witness ==
  \E w \in Workers :
    /\ workers[w].pc = "sleep"
    /\ ~workers[w].ev.is_channel
    /\ ~workers[w].ev.message.edit_date
    /\ HookTarget(workers[w].ev.message).kw # <<>>
    /\ \E i \in 1..Len(calls) :
         calls[i].seq = workers[w].ev.seq /\ calls[i].result = "ok"


\* the task enqueued as number s was dequeued and process_single_message
\* has returned for it
Terminal(s) ==
  /\ s \in Range(taken)
  /\ \A w \in Workers :
       workers[w].ev.seq = s => workers[w].pc \in {"sleep", "stopped"}

\* C11: when every platform call eventually returns or raises, every
\* enqueued event is eventually dequeued, no event is dequeued twice, and
\* each dequeued task has reached its terminal state before the next event
\* is dequeued
C11_EveryTaskCompletes ==
  /\ [](/\ \A i, j \in 1..Len(taken) : i # j => taken[i] # taken[j]
        /\ \A i \in 1..(Len(taken) - 1) : Terminal(taken[i]))
  /\ \A s \in 1..MaxEvents : (Len(enqueued) >= s) ~> Terminal(s)

\* the second event waited in the queue while the first task ran, and both
\* tasks are complete
C11_Witness ==
  /\ Len(taken) = 2
  /\ Terminal(1) /\ Terminal(2)
  /\ \E i \in 1..Len(calls) : calls[i].seq = 1

\* ---------------------------------------------------------- cleaner: menu
\* the longest id list handed to _delete_messages by a caller of the model
MaxIds == 127

\* the most posts of a channel swept from the menu
MaxPosts == 4

\* scan_limit of the sweep
SweepScanLimit == 600

\* the posts of a swept channel: two SKUs of the keyword "k", and a post
\* without keyword
SweepTexts == { <<"k", Colon, "1">>, <<"k", Colon, "2">>, <<"x">> }

SweepChats ==
  UNION {[1..n -> {[text |-> t] : t \in SweepTexts}] : n \in 0..MaxPosts}

\* what the operator types at "Proceed with deletion? [y/N]: "
Answers ==
  { <<"y">>, <<"Y">>, <<Space, "y">>, <<"n">>, <<>>, <<"y", "e", "s">> }

\* what the operator types at "Enter custom keyword: "
CustomInputs == { <<>>, <<"k", Space>> }

\* _select_keyword: choice is the number typed, Len(kws) + 1 stands for
\* every input that is no number of the list; None is <<>>
SelectKeyword(kws, choice, value) ==
  IF kws = <<>> THEN Strip(value)
  ELSE IF choice = 0 THEN Strip(value)
  ELSE IF choice \in 1..Len(kws) THEN kws[choice]
  ELSE <<>>

\* groups.setdefault(sku, []).append(msg.id): a dict keeps insertion order
SetDefaultAppend(groups, sku, id) ==
  IF \E g \in 1..Len(groups) : groups[g].sku = sku
    THEN [g \in 1..Len(groups) |->
            IF groups[g].sku = sku
              THEN [sku |-> sku, ids |-> Append(groups[g].ids, id)]
              ELSE groups[g]]
    ELSE Append(groups, [sku |-> sku, ids |-> <<id>>])

RECURSIVE GroupsFrom(_, _, _, _)
GroupsFrom(ps, keyword, hits, groups) ==
  IF hits = <<>> THEN groups
  ELSE LET sku == ExtractSku(ps[Head(hits)].text, keyword)
       IN GroupsFrom(ps, keyword, Tail(hits),
                     IF sku = <<>> THEN groups
                     ELSE SetDefaultAppend(groups, sku, Head(hits)))

\* _build_sku_groups
BuildSkuGroups(ps, keyword, scan_limit) ==
  GroupsFrom(ps, keyword, IterMessages(ps, keyword, scan_limit), <<>>)

\* sorted(ids)
Sorted(ids) ==
  LET r == SortPairs([j \in 1..Len(ids) |-> [k |-> ids[j], v |-> ids[j]]])
  IN [j \in 1..Len(r) |-> r[j].v]

\* a plan that keeps the smallest id of a group
KeepFirst(ids_sorted) == ids_sorted[1]

\* keep_id = ids_sorted[-1]
KeepId(ids_sorted) == ids_sorted[Len(ids_sorted)]

\* the deletion plan: one (sku, to_delete, keep_id) per group with
\* something to delete, in the order of the groups
RECURSIVE PlanFrom(_, _)
PlanFrom(groups, g) ==
  IF g > Len(groups) THEN <<>>
  ELSE LET ids_sorted == Sorted(groups[g].ids)
           keep_id == KeepId(ids_sorted)
           to_delete == SelectSeq(ids_sorted, LAMBDA m : m # keep_id)
       IN (IF to_delete # <<>>
             THEN << [sku |-> groups[g].sku, to_delete |-> to_delete,
                      keep_id |-> keep_id] >>
             ELSE <<>>)
          \o PlanFrom(groups, g + 1)

BuildPlan(groups) == PlanFrom(groups, 1)

\* a confirmation test that proceeds unless the operator types "n"
ConfirmedUnlessNo(answer) == LowerText(Strip(answer)) # <<"n">>

\* confirm = input(...).strip().lower(); confirm == "y"
Confirmed(answer) == LowerText(Strip(answer)) = <<"y">>

\* ------------------------------------------------------- _delete_messages
\* a batch that is sent only when it has grown beyond the batch size
BatchFullAbove(batch) == Len(batch) > BatchSize

\* len(batch) >= 50
BatchFull(batch) == Len(batch) >= BatchSize

\* the for loop from the id behind position pos: batch.append(mid) until
\* the batch is full or msg_ids is exhausted
RECURSIVE Collect(_, _, _)
Collect(msg_ids, pos, batch) ==
  IF pos >= Len(msg_ids) THEN [pos |-> pos, batch |-> batch, full |-> FALSE]
  ELSE IF BatchFull(Append(batch, msg_ids[pos + 1]))
         THEN [pos |-> pos + 1, batch |-> Append(batch, msg_ids[pos + 1]),
               full |-> TRUE]
         ELSE Collect(msg_ids, pos + 1, Append(batch, msg_ids[pos + 1]))

\* _delete_messages with an empty batch at position pos, run up to its next
\* await or to its return; since is the length of the trace at its call
Resume(msg_ids, pos, deleted, since) ==
  LET c == Collect(msg_ids, pos, <<>>)
  IN [pc |-> IF c.batch = <<>> THEN "returned" ELSE "delete",
      msg_ids |-> msg_ids, pos |-> c.pos, batch |-> c.batch,
      in_loop |-> c.full, deleted |-> deleted, since |-> since]

Ids(n) == [i \in 1..n |-> i]

\* the cleaner after the operator chose "Remove duplicates" for a channel,
\* or a caller awaiting _delete_messages for the n posts of a channel
CleanerInit ==
  /\ PipelineInit
  /\ monitor = <<>>
  /\ is_channel
  /\ fn = [pc |-> "off"]
  /\ trace = <<>>
  /\ \/ /\ chat \in SweepChats
        /\ menu = [pc |-> "select", keyword |-> <<>>, plan |-> <<>>,
                   entry |-> 0, deleted_total |-> 0]
        /\ dm = [pc |-> "off"]
     \/ \E n \in 0..MaxIds :
          /\ chat = [i \in 1..n |-> [text |-> <<"k", Colon, "1">>]]
          /\ menu = [pc |-> "off"]
          /\ dm = Resume(Ids(n), 0, 0, 0)

Event(op, arg, ok) == [op |-> op, arg |-> arg, ok |-> ok]

\* keyword = _select_keyword(...); if not keyword: return
MenuSelect ==
  /\ menu.pc = "select"
  /\ \E choice \in 0..(Len(Keywords) + 1), value \in CustomInputs :
       LET keyword == SelectKeyword(Keywords, choice, value)
       IN menu' = [menu EXCEPT !.keyword = keyword,
                               !.pc = IF keyword = <<>> THEN "cancelled"
                                      ELSE "scan"]
  /\ UNCHANGED <<chat, dm, trace, pipeline, fn, monitor>>

\* await _build_sku_groups(...) returns: the plan is built and, when there
\* is something to delete, the summary is printed and the prompt shown
MenuScan ==
  /\ menu.pc = "scan"
  /\ LET groups == BuildSkuGroups(chat, menu.keyword, SweepScanLimit)
         plan == BuildPlan(groups)
     IN IF groups = <<>> \/ plan = <<>>
          THEN /\ menu' = [menu EXCEPT !.pc = "unique"]
               /\ UNCHANGED trace
          ELSE /\ menu' = [menu EXCEPT !.pc = "confirm", !.plan = plan]
               /\ trace' = Append(trace, Event("summary", plan, TRUE))
  /\ UNCHANGED <<chat, dm, pipeline, fn, monitor>>

\* client.iter_messages raises in _build_sku_groups
MenuScanRaises ==
  /\ menu.pc = "scan"
  /\ menu' = [menu EXCEPT !.pc = "raised"]
  /\ UNCHANGED <<chat, dm, trace, pipeline, fn, monitor>>

\* the operator answers the prompt; on "y" the first entry of the plan is
\* handed to _delete_messages
MenuConfirm ==
  /\ menu.pc = "confirm"
  /\ \E answer \in Answers :
       /\ trace' = Append(trace, Event("input", answer, TRUE))
       /\ IF Confirmed(answer)
            THEN /\ menu' = [menu EXCEPT !.pc = "execute", !.entry = 1]
                 /\ dm' = Resume(menu.plan[1].to_delete, 0, 0, Len(trace) + 1)
            ELSE /\ menu' = [menu EXCEPT !.pc = "declined"]
                 /\ UNCHANGED dm
  /\ UNCHANGED <<chat, pipeline, fn, monitor>>

\* _delete_messages returns d.deleted: the loop over the plan adds it to
\* deleted_total and calls _delete_messages for the next entry
ReturnToCaller(d, since) ==
  IF menu.pc = "execute"
    THEN IF menu.entry < Len(menu.plan)
           THEN /\ menu' = [menu EXCEPT !.entry = @ + 1,
                                        !.deleted_total = @ + d.deleted]
                /\ dm' = Resume(menu.plan[menu.entry + 1].to_delete, 0, 0,
                                since)
           ELSE /\ menu' = [menu EXCEPT !.pc = "done",
                                        !.deleted_total = @ + d.deleted]
                /\ dm' = d
    ELSE /\ dm' = d
         /\ UNCHANGED menu

\* await client.delete_messages(chat_id, batch) returns
DeleteReturns ==
  /\ dm.pc = "delete"
  /\ chat' = Without(chat, Range(dm.batch))
  /\ trace' = Append(trace, Event("delete", dm.batch, TRUE))
  /\ IF dm.in_loop
       THEN /\ dm' = [dm EXCEPT !.pc = "sleep", !.batch = <<>>,
                                !.deleted = @ + Len(dm.batch)]
            /\ UNCHANGED menu
       ELSE ReturnToCaller([dm EXCEPT !.pc = "returned", !.batch = <<>>,
                                      !.deleted = @ + Len(dm.batch)],
                           Len(trace) + 1)
  /\ UNCHANGED <<pipeline, fn, monitor>>

\* await client.delete_messages(chat_id, batch) raises: nothing catches the
\* exception in _delete_messages nor in _menu_remove_duplicates
DeleteRaises ==
  /\ dm.pc = "delete"
  /\ trace' = Append(trace, Event("delete", dm.batch, FALSE))
  /\ dm' = [dm EXCEPT !.pc = "raised"]
  /\ menu' = IF menu.pc = "execute" THEN [menu EXCEPT !.pc = "raised"]
             ELSE menu
  /\ UNCHANGED <<chat, pipeline, fn, monitor>>

\* await asyncio.sleep(0.4) returns and the for loop goes on
PacingSleep ==
  /\ dm.pc = "sleep"
  /\ trace' = Append(trace, Event("sleep", <<>>, TRUE))
  /\ LET d == Resume(dm.msg_ids, dm.pos, dm.deleted, dm.since)
     IN IF d.pc = "returned"
          THEN ReturnToCaller(d, Len(trace) + 1)
          ELSE /\ dm' = d
               /\ UNCHANGED menu
  /\ UNCHANGED <<chat, pipeline, fn, monitor>>

CleanerNext ==
  \/ MenuSelect
  \/ MenuScan
  \/ MenuScanRaises
  \/ MenuConfirm
  \/ DeleteReturns
  \/ DeleteRaises
  \/ PacingSleep

CleanerSpec == CleanerInit /\ [][CleanerNext]_vars

\* --------------------------------------------------- claims on the cleaner
\* the deletion calls of the trace behind position since, in order
CallsSince(since) ==
  SelectSeq(SubSeq(trace, since + 1, Len(trace)),
            LAMBDA e : e.op = "delete")

\* the number of ids in the calls of cs that succeeded
RECURSIVE OkCount(_)
OkCount(cs) ==
  IF cs = <<>> THEN 0
  ELSE (IF Head(cs).ok THEN Len(Head(cs).arg) ELSE 0) + OkCount(Tail(cs))

\* C12: a deletion call that fails does not abort _delete_messages: after
\* a failed batch the operation still runs or has returned, so the batches
\* behind the failed one are still requested
C12_FailedBatchNotAborting ==
  (\E i \in 1..Len(trace) : trace[i].op = "delete" /\ ~trace[i].ok)
    => dm.pc \in {"delete", "sleep", "returned"}

\* C13: when _delete_messages has ended, it has returned the number of ids
\* of the batches whose deletion call succeeded, the ids of a failed batch
\* not counted
C13_ReturnsSuccessCount ==
  dm.pc \in {"returned", "raised"} =>
    /\ dm.pc = "returned"
    /\ dm.deleted = OkCount(CallsSince(dm.since))

\* C14: without failures _delete_messages for n ids returns n after exactly
\* ceil(n/50) deletion calls, the j-th of them for the ids 50(j-1)+1 .. 50j
\* of the list (the last one for what is left), so no call for n = 0
C14_BatchesOfFifty ==
  LET cs == CallsSince(dm.since)
      n == Len(dm.msg_ids)
  IN (dm.pc = "returned" /\ \A j \in 1..Len(cs) : cs[j].ok) =>
       /\ Len(cs) = (n + 49) \div 50
       /\ \A j \in 1..Len(cs) :
            cs[j].arg = SubSeq(dm.msg_ids, 50 * (j - 1) + 1,
                               IF 50 * j < n THEN 50 * j ELSE n)
       /\ dm.deleted = n

\* 127 ids were deleted by calls of 50, 50 and 27 ids and 127 was returned
C14_Witness ==
  /\ dm.pc = "returned"
  /\ Len(dm.msg_ids) = 127
  /\ dm.deleted = 127
  /\ LET cs == CallsSince(dm.since)
     IN /\ Len(cs) = 3
        /\ Len(cs[1].arg) = 50 /\ Len(cs[2].arg) = 50 /\ Len(cs[3].arg) = 27
        /\ \A j \in 1..3 : cs[j].ok

\* C15: between any two deletion calls of the cleaner there is a pacing
\* sleep, inside one _delete_messages and from one entry of the plan to the
\* next
C15_PacedDeletes ==
  \A i, j \in 1..Len(trace) :
    (i < j /\ trace[i].op = "delete" /\ trace[j].op = "delete") =>
      \E k \in (i + 1)..(j - 1) : trace[k].op = "sleep"

\* the posts of ps whose SKU for the keyword is sku
SkuGroup(ps, keyword, sku) ==
  {i \in DOMAIN ps : ExtractSku(ps[i].text, keyword) = sku}

\* C16: the plan the sweep builds has, for every SKU carried by two or
\* more posts, exactly one entry, which keeps the greatest id of the group
\* and deletes exactly the others, and no entry for a SKU carried by one
\* post
C16_PlanPerGroup ==
  menu.pc \in {"confirm", "unique"} =>
    \A sku \in {ExtractSku(chat[i].text, menu.keyword) : i \in DOMAIN chat}
                 \ {<<>>} :
      LET G == SkuGroup(chat, menu.keyword, sku)
          entries == {e \in 1..Len(menu.plan) : menu.plan[e].sku = sku}
      IN IF Cardinality(G) >= 2
           THEN /\ Cardinality(entries) = 1
                /\ \A e \in entries :
                     /\ menu.plan[e].keep_id = Max(G)
                     /\ Range(menu.plan[e].to_delete) = G \ {Max(G)}
                     /\ Len(menu.plan[e].to_delete) = Cardinality(G) - 1
           ELSE entries = {}

\* a plan was built for a channel with a SKU on two posts and another SKU
\* on one post
C16_Witness ==
  /\ menu.pc = "confirm"
  /\ Len(menu.plan) = 1
  /\ \E i \in DOMAIN chat :
       /\ ExtractSku(chat[i].text, menu.keyword) # <<>>
       /\ Cardinality(SkuGroup(chat, menu.keyword,
                               ExtractSku(chat[i].text, menu.keyword))) = 1

\* the answer is the letter y, in either case, with nothing but blanks
\* around it
IsConfirmation(answer) ==
  \E j \in 1..Len(answer) :
    /\ answer[j] \in {"y", "Y"}
    /\ \A i \in 1..Len(answer) : i # j => answer[i] \in Whitespace

\* the summary of the whole plan was printed and a confirmation was typed
\* after it
ShownAndConfirmed(t) ==
  \E s, a \in 1..Len(t) :
    /\ s < a
    /\ t[s] = Event("summary", menu.plan, TRUE)
    /\ t[a].op = "input" /\ IsConfirmation(t[a].arg)

MaxTextLen == 5

\* the most older posts the platform search delivers to _search_by_sku
MaxCandidates == 2

ExtractAlphabet ==
  {"k", "K", Space, Colon, FullwidthColon, "-", "=", "1", ArabicDigit}

ExtractTexts == UNION {[1..n -> ExtractAlphabet] : n \in 0..MaxTextLen}

\* values of config["cleaner"]["keywords"]
KeywordLists ==
  { <<>>, << <<"k">> >>, Keywords, << Keywords[2], Keywords[1] >> }

\* raw_text of the message of the event
HookTexts ==
  { <<>>,
    <<Space>>,
    <<"x">>,
    <<Space, "k", Colon, "1", Space>>,
    <<"k", Space, SHENASE, Space, MAHSUL, Colon, "2">>,
    <<"k", Colon, "1", Space, SHENASE, Space, MAHSUL, Colon, "2">>,
    <<SHENASE, Space, MAHSUL, Space, "k", Colon, "1">> }

\* the post that triggers the targeted search, and older posts of the chat
TriggerText == <<"k", Colon, "1">>

CandidateTexts ==
  { <<"k", Colon, "1">>,
    <<"k", Colon, "1", "2">>,
    <<"k", Colon, "2">>,
    <<"1", Space, "k", Colon, "2">>,
    <<"x", Colon, "1">> }

CandidateChats ==
  {Append(c, [text |-> TriggerText]) :
     c \in UNION {[1..n -> {[text |-> t] : t \in CandidateTexts}] :
                    n \in 0..MaxCandidates}}

\* run_duplicate_check_for_event up to its first await: it returns, or it
\* awaits _search_by_sku for chosen_kw and sku
HookEntry(keywords, raw_text) ==
  IF keywords = <<>> \/ Strip(raw_text) = <<>>
    THEN [pc |-> "returned", kw |-> <<>>, sku |-> <<>>, tried |-> <<>>]
    ELSE LET r == KeywordLoop(keywords, Strip(raw_text), 1)
         IN [pc |-> IF r.kw = <<>> \/ r.sku = <<>> THEN "returned"
                    ELSE "search",
             kw |-> r.kw, sku |-> r.sku, tried |-> r.tried]

\* one call of a function of the cleaner, its arguments drawn
FnInit ==
  /\ PipelineInit
  /\ is_channel
  /\ CleanerOff
  /\ \/ \E t \in ExtractTexts :
          fn = [pc |-> "call", op |-> "extract", text |-> t,
                keyword |-> <<"k">>]
     \/ \E ks \in KeywordLists, t \in HookTexts :
          fn = [pc |-> "call", op |-> "hook", keywords |-> ks,
                raw_text |-> t]
     \/ \E ps \in CandidateChats :
          fn = [pc |-> "call", op |-> "search", ps |-> ps,
                keyword |-> KeywordLoop(Keywords, TriggerText, 1).kw,
                sku |-> KeywordLoop(Keywords, TriggerText, 1).sku,
                keep_latest_id |-> Len(ps)]

\* sku = _extract_sku(text, keyword)
FnExtractSku ==
  /\ fn.pc = "call" /\ fn.op = "extract"
  /\ fn' = [pc |-> "returned", op |-> "extract", text |-> fn.text,
            keyword |-> fn.keyword,
            out |-> ExtractSku(fn.text, fn.keyword)]
  /\ UNCHANGED <<pipeline, cleaner>>

\* run_duplicate_check_for_event(client, config, event)
FnHook ==
  /\ fn.pc = "call" /\ fn.op = "hook"
  /\ fn' = [pc |-> "returned", op |-> "hook", keywords |-> fn.keywords,
            raw_text |-> fn.raw_text,
            out |-> HookEntry(fn.keywords, fn.raw_text)]
  /\ UNCHANGED <<pipeline, cleaner>>

\* ids = await _search_by_sku(...)
FnSearchBySku ==
  /\ fn.pc = "call" /\ fn.op = "search"
  /\ fn' = [pc |-> "returned", op |-> "search", ps |-> fn.ps,
            keyword |-> fn.keyword, sku |-> fn.sku,
            keep_latest_id |-> fn.keep_latest_id,
            out |-> SearchBySku(fn.ps, fn.keyword, fn.sku,
                                fn.keep_latest_id, HookScanLimit)]
  /\ UNCHANGED <<pipeline, cleaner>>

FnNext ==
  \/ FnExtractSku
  \/ FnHook
  \/ FnSearchBySku

FnSpec == FnInit /\ [][FnNext]_vars

\* ------------------------------------------------ claims on the functions
\* C18: every id the targeted search returns is the id of a post whose SKU
\* for the keyword is the SKU of the triggering post
C18_SameKeywordSameSku ==
  (fn.pc = "returned" /\ fn.op = "search") =>
    \A j \in 1..Len(fn.out) :
      ExtractSku(fn.ps[fn.out[j]].text, fn.keyword) = fn.sku

ClaimedDelimiters == {Colon, FullwidthColon, "-", "_", "="}

\* the keyword, in any letter case, is at position i of the text
KeywordAt(text, kw, i) ==
  /\ i + Len(kw) - 1 <= Len(text)
  /\ \A j \in 1..Len(kw) : Lower(text[i + j - 1]) = Lower(kw[j])

\* the tokens <<b, c>> behind the keyword at i: blanks, one delimiter,
\* blanks, and from b to c - 1 the longest run of characters of the class
Occurrences(text, kw, i, delims, class) ==
  IF ~KeywordAt(text, kw, i) THEN {}
  ELSE {bc \in (1..Len(text)) \X (1..(Len(text) + 1)) :
          /\ i + Len(kw) < bc[1] /\ bc[1] < bc[2]
          /\ \A j \in bc[1]..(bc[2] - 1) : text[j] \in class
          /\ bc[2] = Len(text) + 1 \/ text[bc[2]] \notin class
          /\ \E a \in (i + Len(kw))..(bc[1] - 1) :
               /\ text[a] \in delims
               /\ \A j \in (i + Len(kw))..(a - 1) : text[j] \in Whitespace
               /\ \A j \in (a + 1)..(bc[1] - 1) : text[j] \in Whitespace}

\* the token of the leftmost occurrence, <<>> when there is none
LeftmostToken(text, kw, delims, class) ==
  LET I == {i \in 1..Len(text) : Occurrences(text, kw, i, delims, class) # {}}
      first == CHOOSE i \in I : \A j \in I : i <= j
      bc == CHOOSE x \in Occurrences(text, kw, first, delims, class) : TRUE
  IN IF I = {} THEN <<>> ELSE SubSeq(text, bc[1], bc[2] - 1)

MaxComposeLen == 3

ComposeTexts == UNION {[1..n -> {"e", "E", "x"}] : n \in 1..MaxComposeLen}

\* values of config["emoji_map"]: the map of the session, and a map with a
\* key that is a part of another key
GlyphMaps ==
  { EmojiMap,
    << [emoji |-> <<"e">>, doc_id |-> 11],
       [emoji |-> <<"e", "e">>, doc_id |-> 13] >> }

Bold(offset, length) ==
  [kind |-> "bold", offset |-> offset, length |-> length, doc_id |-> 0]

\* the entities a message arrives with: none, its first character in bold,
\* all of it in bold
ArrivingEntities(text) ==
  { <<>>, <<Bold(0, Utf16Units(text[1]))>>, <<Bold(0, Utf16Len(text))>> }

\* lines 60 to 91 of process_single_message for one message: the text and
\* the entities it would hand to the platform; there is no failure path
Composed(emoji_map, msg) ==
  [text |-> ParsedText(msg),
   entities |-> FinalEntities(emoji_map, msg),
   update |-> MatchesIn(emoji_map, ParsedText(msg), 1) # <<>>,
   error |-> "none"]

\* nothing composed yet
NotComposed ==
  [text |-> <<>>, entities |-> <<>>, update |-> FALSE, error |-> "none"]

ComposeInit ==
  /\ PipelineInit
  /\ is_channel
  /\ CleanerOff
  /\ \E m \in GlyphMaps, t \in ComposeTexts :
       \E es \in ArrivingEntities(t) :
         fn = [pc |-> "call", op |-> "compose", emoji_map |-> m,
               msg |-> [text |-> t, entities |-> es], round |-> 1,
               first |-> NotComposed, out |-> NotComposed]

\* the compositor runs for the message
FnCompose ==
  /\ fn.pc = "call" /\ fn.op = "compose"
  /\ fn' = [fn EXCEPT !.pc = "returned",
                      !.out = Composed(fn.emoji_map, fn.msg),
                      !.first = IF fn.round = 1
                                  THEN Composed(fn.emoji_map, fn.msg) ELSE @]
  /\ UNCHANGED <<pipeline, cleaner>>

\* the platform delivers the message with the text and the entities the
\* compositor produced, and the compositor is called for it
FnComposeAgain ==
  /\ fn.pc = "returned" /\ fn.op = "compose" /\ fn.round = 1
  /\ fn' = [fn EXCEPT !.pc = "call", !.round = 2,
                      !.msg = [text |-> fn.out.text,
                               entities |-> fn.out.entities]]
  /\ UNCHANGED <<pipeline, cleaner>>

ComposeNext ==
  \/ FnCompose
  \/ FnComposeAgain

ComposeSpec == ComposeInit /\ [][ComposeNext]_vars

\* -------------------------------------------------- claims on the ranges
\* two ranges of es share a code unit
Overlapping(es) ==
  \E i, j \in 1..Len(es) :
    /\ i < j
    /\ es[i].offset < es[j].offset + es[j].length
    /\ es[j].offset < es[i].offset + es[i].length

\* C21: when the ranges of the message and the new custom emoji ranges
\* overlap, the compositor fails with RangeConflict instead of handing
\* overlapping ranges to the platform
C21_OverlapRejected ==
  (fn.pc = "returned" /\ fn.op = "compose" /\ fn.out.update) =>
    (Overlapping(fn.out.entities) => fn.out.error = "RangeConflict")

C25_SortedDisjoint ==
  (fn.pc = "returned" /\ fn.op = "compose" /\ fn.out.update) =>
    /\ \A i, j \in 1..Len(fn.out.entities) :
         i < j => fn.out.entities[i].offset <= fn.out.entities[j].offset
    /\ ~Overlapping(fn.out.entities)

\* the positions of the text at which the key is found
Occ(text, key) ==
  {i \in 1..(Len(text) - Len(key) + 1) :
     \A j \in 1..Len(key) : text[i + j - 1] = key[j]}

\* the occurrences a scan from left to right finds when it goes on behind
\* each occurrence it found
RECURSIVE Scanned(_, _)
Scanned(occ, n) ==
  IF occ = {} THEN {}
  ELSE LET m == CHOOSE i \in occ : \A j \in occ : i <= j
       IN {m} \cup Scanned({i \in occ : i >= m + n}, n)

\* UTF-16 code units of the first n characters: two for a character
\* outside the Basic Multilingual Plane, one for any other
UnitsOf(text, n) == n + Cardinality({j \in 1..n : text[j] = "E"})

\* es has exactly one custom emoji range for the key found at position i
OneRangeFor(es, text, entry, i) ==
  Cardinality({j \in 1..Len(es) :
     es[j] = [kind |-> "custom_emoji", offset |-> UnitsOf(text, i - 1),
              length |-> UnitsOf(entry.emoji, Len(entry.emoji)),
              doc_id |-> entry.doc_id]}) = 1

\* C26 as stated: one custom emoji range for every position at which a key
\* of the map is found in the text
C26_EveryOccurrence ==
  (fn.pc = "returned" /\ fn.op = "compose") =>
    \A k \in 1..Len(fn.emoji_map) :
      \A i \in Occ(fn.out.text, fn.emoji_map[k].emoji) :
        OneRangeFor(fn.out.entities, fn.out.text, fn.emoji_map[k], i)

\* C26: one custom emoji range, with the UTF-16 offset and length and the
\* mapped id, for every occurrence of a key that the scan from left to
\* right finds, and no other custom emoji range
C26_ScannedOccurrences ==
  (fn.pc = "returned" /\ fn.op = "compose") =>
    /\ \A k \in 1..Len(fn.emoji_map) :
         \A i \in Scanned(Occ(fn.out.text, fn.emoji_map[k].emoji),
                          Len(fn.emoji_map[k].emoji)) :
           OneRangeFor(fn.out.entities, fn.out.text, fn.emoji_map[k], i)
    /\ \A j \in 1..Len(fn.out.entities) :
         fn.out.entities[j].kind = "custom_emoji" =>
           \E k \in 1..Len(fn.emoji_map) :
             \E i \in Scanned(Occ(fn.out.text, fn.emoji_map[k].emoji),
                              Len(fn.emoji_map[k].emoji)) :
               /\ fn.out.entities[j].offset = UnitsOf(fn.out.text, i - 1)
               /\ fn.out.entities[j].doc_id = fn.emoji_map[k].doc_id

\* an emoji behind a character outside the Basic Multilingual Plane got a
\* range at offset 2
C26_Witness ==
  /\ fn.pc = "returned" /\ fn.op = "compose" /\ fn.round = 1
  /\ fn.out.text = <<"E", "e">>
  /\ fn.emoji_map = EmojiMap
  /\ \E j \in 1..Len(fn.out.entities) :
       fn.out.entities[j] = [kind |-> "custom_emoji", offset |-> 2,
                             length |-> 1, doc_id |-> 11]
\* ------------------------------------------- claims on the pipeline, again
\* C23: starting the worker of a session whose worker is already running is
\* reported to the caller as an error
C23_SecondWorkerReported ==
  \A w \in Workers :
    workers[w].pc = "returned" =>
      \E e \in errors : e.log = "worker already running"

\* C24: the post-hook keeps the post its task produced: the post the task
\* sent or edited last is never among the ids the hook asks to delete
C24_ProducedPostKept ==
  \A w \in Workers :
    workers[w].pc = "hook_delete" =>
      workers[w].current_msg \notin Range(workers[w].ids)

\* C27: when every platform call succeeded, no post was edited from outside
\* and no task is in flight, for every keyword and SKU that was published a
\* post carrying them exists
C27_OneCopySurvives ==
  (/\ \A i \in 1..Len(calls) : calls[i].result = "ok"
   /\ \A s \in 1..Len(enqueued) : ~enqueued[s].message.edit_date
   /\ \A w \in Workers : workers[w].pc \notin InFlight) =>
    \A s \in 1..Len(enqueued) :
      LET t == HookTarget(enqueued[s].message)
      IN t.sku # <<>> => Group(posts, t.kw, t.sku) # {}

\* C28: when the send of a replacement has returned or raised, the chat
\* holds a post with the text of the task's message
C28_ContentNeverLost ==
  (/\ calls # <<>>
   /\ calls[Len(calls)].op = "send"
   /\ calls[Len(calls)].by = "apply") =>
    \E i \in DOMAIN posts :
      posts[i].text = ParsedText(enqueued[calls[Len(calls)].seq].message)

\* ------------------------------------------------------------ live monitor
\* the new posts the live monitor sees
MaxHandlers == 2

\* the monitored channel when _start_live_monitor registers on_new_message:
\* empty, or holding one older post with a keyword and a SKU
MonitorChats == { <<>>, <<[text |-> <<"k", Colon, Space, "1">>]>> }

MonitorInit ==
  /\ PipelineInit
  /\ is_channel
  /\ fn = [pc |-> "off"]
  /\ menu = [pc |-> "off"]
  /\ dm = [pc |-> "off"]
  /\ trace = <<>>
  /\ chat \in MonitorChats
  /\ monitor = <<>>

\* the id the platform gives the next post of the monitored channel
MonitorNextId ==
  Max(DOMAIN chat \cup {monitor[h].msg.id : h \in 1..Len(monitor)} \cup {0}) + 1

\* a new post appears and on_new_message runs up to its first await: it
\* returns for a text without keyword and SKU, or starts the search
on_new_message ==
  /\ Len(monitor) < MaxHandlers
  /\ \E t \in Texts :
       /\ chat' = chat @@ (MonitorNextId :> [text |-> t])
       /\ monitor' = Append(monitor,
            [pc |-> IF Strip(t) = <<>> \/ HookTargets[t].sku = <<>>
                      THEN "done" ELSE "search",
             msg |-> [id |-> MonitorNextId, text |-> t],
             ids |-> <<>>])
  /\ UNCHANGED <<pipeline, fn, menu, dm, trace>>

\* ids = await _search_by_sku(..., keep_latest_id=msg.id, scan_limit=300)
MonitorSearch(h) ==
  /\ h <= Len(monitor)
  /\ monitor[h].pc = "search"
  /\ LET t == HookTarget(monitor[h].msg)
         ids == SearchBySku(chat, t.kw, t.sku, monitor[h].msg.id,
                            HookScanLimit)
     IN monitor' = [monitor EXCEPT
          ![h].pc = IF ids = <<>> THEN "done" ELSE "delete",
          ![h].ids = ids]
  /\ UNCHANGED <<pipeline, fn, chat, menu, dm, trace>>

\* the search raises: the except clause logs and the handler ends
MonitorSearchRaises(h) ==
  /\ h <= Len(monitor)
  /\ monitor[h].pc = "search"
  /\ failures < MaxFailures
  /\ failures' = failures + 1
  /\ errors' = errors \cup {[seq |-> h, log |-> "Cleaner(auto) failed"]}
  /\ monitor' = [monitor EXCEPT ![h].pc = "done"]
  /\ UNCHANGED <<posts, next_id, is_channel, message_queue, next_seq,
                 enqueued, processing, workers, calls, hooked, taken, echoes,
                 fn, chat, menu, dm, trace>>

\* deleted = await _delete_messages(client, event.chat_id, ids): the ids of
\* this model fit one batch, which needs no pacing sleep
MonitorDelete(h) ==
  /\ h <= Len(monitor)
  /\ monitor[h].pc = "delete"
  /\ chat' = Without(chat, Range(monitor[h].ids))
  /\ monitor' = [monitor EXCEPT ![h].pc = "done"]
  /\ UNCHANGED <<pipeline, fn, menu, dm, trace>>

\* client.delete_messages raises: the except clause logs and the handler ends
MonitorDeleteRaises(h) ==
  /\ h <= Len(monitor)
  /\ monitor[h].pc = "delete"
  /\ failures < MaxFailures
  /\ failures' = failures + 1
  /\ errors' = errors \cup {[seq |-> h, log |-> "Cleaner(auto) failed"]}
  /\ monitor' = [monitor EXCEPT ![h].pc = "done"]
  /\ UNCHANGED <<posts, next_id, is_channel, message_queue, next_seq,
                 enqueued, processing, workers, calls, hooked, taken, echoes,
                 fn, chat, menu, dm, trace>>

MonitorNext ==
  \/ on_new_message
  \/ \E h \in 1..MaxHandlers :
       \/ MonitorSearch(h)
       \/ MonitorSearchRaises(h)
       \/ MonitorDelete(h)
       \/ MonitorDeleteRaises(h)

MonitorSpec == MonitorInit /\ [][MonitorNext]_vars

\* C30: when the handlers of two new posts with the same keyword and SKU
\* have ended and no call failed, the post with the greater id exists
C30_NewerSurvives ==
  \A g, h \in 1..Len(monitor) :
    (/\ g < h
     /\ monitor[g].pc = "done" /\ monitor[h].pc = "done"
     /\ HookTarget(monitor[g].msg).sku # <<>>
     /\ HookTarget(monitor[g].msg) = HookTarget(monitor[h].msg)
     /\ failures = 0) =>
      monitor[h].msg.id \in DOMAIN chat

\* C29: the pipeline does not feed itself: the events for posts the session
\* itself sent or edited never outnumber the events from outside, so that
\* finitely many of these lead to finitely many tasks and calls
C29_NoSelfFeeding ==
  Cardinality(echoes) <= Len(enqueued) - Cardinality(echoes)

====
